---- MODULE Spec2Model ----
(***************************************************************************)
(* A model of react-csv-exporter: exportToCSV (src/src/exportToCSV.ts),    *)
(* its helper escapeCSVValue and the browser collaborators it drives.      *)
(*                                                                         *)
(* JavaScript strings are sequences of one-character strings, so that      *)
(* escaping, joining, slicing and suffix stripping are computed.  A        *)
(* JavaScript value is a record [t, s, n]: t is the type tag, s the        *)
(* characters of a string, n the number (or 0/1 for a boolean).  An        *)
(* optional option is a sequence of length 0 (left out) or 1 (given).      *)
(***************************************************************************)
EXTENDS Integers, Sequences, FiniteSets

VARIABLES
    pc,             \* position of the call inside exportToCSV
    opts,           \* the options object the call was made with
    log,            \* callbacks, formatters and collaborators invoked, in order
    headerRow,      \* l.59
    cells,          \* the escaped cells of each data row, before the join (l.62-67)
    contentRows,    \* l.71-76
    finalCsv,       \* l.80
    finalFilename,  \* l.81-83
    now,            \* the instant read by new Date() (l.82), if it was read
    blob,           \* the Blob built at l.85
    urls,           \* object URLs created and not yet revoked
    link,           \* the <a> element of l.88-90
    body            \* the elements appended to document.body

vars == <<pc, opts, log, headerRow, cells, contentRows, finalCsv, finalFilename, now,
          blob, urls, link, body>>

(***************************************************************************)
(* Bounds of the model.                                                    *)
(***************************************************************************)
MaxRecords == 2     \* longest data array
MaxLen == 2         \* longest string held by a cell

(***************************************************************************)
(* Strings.                                                                *)
(***************************************************************************)
DQ == "\""
NL == "\n"
CR == "\r"
BOM == "U+FEFF"

S_export_csv == <<"e", "x", "p", "o", "r", "t", ".", "c", "s", "v">>
S_utf8 == <<"u", "t", "f", "-", "8">>
S_comma == <<",">>
S_lf == <<NL>>
S_crlf == <<CR, NL>>
S_dotcsv == <<".", "c", "s", "v">>
S_mime == <<"t", "e", "x", "t", "/", "c", "s", "v", ";", "c", "h", "a", "r", "s", "e", "t", "=">>

RECURSIVE StartsWithAt(_, _, _)
\* s has the characters of d from position i on
StartsWithAt(s, d, i) ==
    IF d = <<>> THEN TRUE
    ELSE IF i > Len(s) THEN FALSE
    ELSE IF s[i] # Head(d) THEN FALSE
    ELSE StartsWithAt(s, Tail(d), i + 1)

RECURSIVE IncludesFrom(_, _, _)
IncludesFrom(s, d, i) ==
    IF i + Len(d) - 1 > Len(s) THEN FALSE
    ELSE IF StartsWithAt(s, d, i) THEN TRUE
    ELSE IncludesFrom(s, d, i + 1)

\* String.prototype.includes
Includes(s, d) == IncludesFrom(s, d, 1)

RECURSIVE ReplaceAllChar(_, _, _)
\* String.prototype.replace with a global one-character pattern
ReplaceAllChar(s, c, by) ==
    IF s = <<>> THEN <<>>
    ELSE (IF Head(s) = c THEN by ELSE <<Head(s)>>) \o ReplaceAllChar(Tail(s), c, by)

RECURSIVE Join(_, _)
\* Array.prototype.join on an array of strings
Join(rows, sep) ==
    IF rows = <<>> THEN <<>>
    ELSE IF Len(rows) = 1 THEN rows[1]
    ELSE rows[1] \o sep \o Join(Tail(rows), sep)

\* String.prototype.slice(0, n)
Slice0(s, n) == SubSeq(s, 1, IF n < Len(s) THEN n ELSE Len(s))

\* filename.replace(/\.csv$/, '')
StripCsvSuffix(s) ==
    IF Len(s) >= Len(S_dotcsv) /\ SubSeq(s, Len(s) - Len(S_dotcsv) + 1, Len(s)) = S_dotcsv
    THEN SubSeq(s, 1, Len(s) - Len(S_dotcsv))
    ELSE s

(***************************************************************************)
(* JavaScript values and String(value).                                    *)
(***************************************************************************)
Null == [t |-> "null", s |-> <<>>, n |-> 0]
Undefined == [t |-> "undefined", s |-> <<>>, n |-> 0]
Str(s) == [t |-> "string", s |-> s, n |-> 0]
Num(n) == [t |-> "number", s |-> <<>>, n |-> n]
Bool(b) == [t |-> "boolean", s |-> <<>>, n |-> IF b THEN 1 ELSE 0]
Thrown == [t |-> "throw", s |-> <<>>, n |-> 0]

IsNullish(v) == v.t \in {"null", "undefined"}

Digits == <<"0", "1", "2", "3", "4", "5", "6", "7", "8", "9">>

RECURSIVE NatString(_)
NatString(n) ==
    IF n < 10 THEN <<Digits[n + 1]>>
    ELSE NatString(n \div 10) \o <<Digits[(n % 10) + 1]>>

NumberString(n) == IF n < 0 THEN <<"-">> \o NatString(-n) ELSE NatString(n)

\* String(value)
String(v) ==
    CASE v.t = "string" -> v.s
      [] v.t = "number" -> NumberString(v.n)
      [] v.t = "boolean" -> IF v.n = 1 THEN <<"t", "r", "u", "e">> ELSE <<"f", "a", "l", "s", "e">>
      [] v.t = "null" -> <<"n", "u", "l", "l">>
      [] v.t = "undefined" -> <<"u", "n", "d", "e", "f", "i", "n", "e", "d">>

\* the optional chain and the defaults of the destructuring: o is <<>> or <<x>>
Given(o) == o # <<>>
OrDefault(o, d) == IF o = <<>> THEN d ELSE o[1]

\* escapeCSVValue without the test for a newline
escapeCSVValue_NoNewlineTest(value, quoteValues, delimiter) ==
    IF IsNullish(value) THEN <<>>
    ELSE LET stringValue == String(value) IN
         IF \/ quoteValues
            \/ Includes(stringValue, delimiter)
            \/ Includes(stringValue, <<DQ>>)
         THEN <<DQ>> \o ReplaceAllChar(stringValue, DQ, <<DQ, DQ>>) \o <<DQ>>
         ELSE stringValue

(***************************************************************************)
(* escapeCSVValue, l.21-33.                                                *)
(***************************************************************************)
escapeCSVValue(value, quoteValues, delimiter) ==
    IF IsNullish(value) THEN <<>>
    ELSE LET stringValue == String(value) IN
         IF \/ quoteValues
            \/ Includes(stringValue, delimiter)
            \/ Includes(stringValue, <<DQ>>)
            \/ Includes(stringValue, <<NL>>)
         THEN <<DQ>> \o ReplaceAllChar(stringValue, DQ, <<DQ, DQ>>) \o <<DQ>>
         ELSE stringValue

(***************************************************************************)
(* Records, formatters and the options object.                             *)
(***************************************************************************)
\* A record (a row of data) is the sequence of its own properties, in the
\* order Object.keys lists them: entries [k |-> name, v |-> value].
ObjectKeys(row) == [i \in 1..Len(row) |-> Str(row[i].k)]

HasOwn(row, name) == \E i \in 1..Len(row) : row[i].k = name

\* row[key]: the property named String(key), undefined when there is none
GetProp(row, key) ==
    IF HasOwn(row, String(key))
    THEN row[CHOOSE i \in 1..Len(row) : row[i].k = String(key)].v
    ELSE Undefined

\* The formatter functions of the README and the tests, and two that return
\* no string.  A formatter table is a sequence of entries [k |-> name, f |-> id].
S_yearsOld == <<" ", "y">>
S_Yes == <<"Y", "e", "s">>
S_No == <<"N", "o">>

ToUpperCaseChar(c) == IF c = "a" THEN "A" ELSE IF c = "b" THEN "B" ELSE c

\* ToBoolean(value)
Truthy(v) ==
    CASE v.t = "string" -> v.s # <<>>
      [] v.t = "number" -> v.n # 0
      [] v.t = "boolean" -> v.n = 1
      [] OTHER -> FALSE

\* the call formatter(raw): a value, or Thrown when the call throws
CallFormatter(f, raw) ==
    CASE f = "yearsOld" -> Str(String(raw) \o S_yearsOld)          \* `${value} y`
      [] f = "toUpperCase" ->                                       \* value.toUpperCase()
            IF raw.t = "string"
            THEN Str([i \in 1..Len(raw.s) |-> ToUpperCaseChar(raw.s[i])])
            ELSE Thrown
      [] f = "yesNo" -> Str(IF Truthy(raw) THEN S_Yes ELSE S_No)    \* value ? 'Yes' : 'No'
      [] f = "returnsNull" -> Null
      [] f = "returnsUndefined" -> Undefined

HasFormatter(formatters, key) ==
    \E i \in 1..Len(formatters) : formatters[i].k = String(key)

FormatterOf(formatters, key) ==
    formatters[CHOOSE i \in 1..Len(formatters) : formatters[i].k = String(key)].f

\* formatters[key]?.(raw) ?? raw, l.65
Formatted(formatters, key, raw) ==
    IF ~HasFormatter(formatters, key) THEN raw
    ELSE LET r == CallFormatter(FormatterOf(formatters, key), raw) IN
         IF IsNullish(r) THEN raw ELSE r

\* the parameters after the defaults of l.36-52
Destructure(o) ==
    [data |-> o.data,
     filename |-> OrDefault(o.filename, S_export_csv),
     headers |-> o.headers,
     labels |-> o.labels,
     includeBOM |-> OrDefault(o.includeBOM, FALSE),
     delimiter |-> OrDefault(o.delimiter, S_comma),
     formatters |-> OrDefault(o.formatters, <<>>),
     quoteValues |-> OrDefault(o.quoteValues, TRUE),
     addTimestamp |-> OrDefault(o.addTimestamp, FALSE),
     newline |-> OrDefault(o.newline, S_lf),
     onExportStart |-> o.onExportStart,
     onExportComplete |-> o.onExportComplete,
     prependRows |-> OrDefault(o.prependRows, <<>>),
     appendRows |-> OrDefault(o.appendRows, <<>>),
     encoding |-> OrDefault(o.encoding, S_utf8),
     useKeysAsHeader |-> OrDefault(o.useKeysAsHeader, FALSE),
     includeHeader |-> OrDefault(o.includeHeader, TRUE)]

\* the guard without the test of the length
GuardReturns_NullOnly(data) == ~Given(data)

\* !data || data.length === 0, l.54
GuardReturns(data) == ~Given(data) \/ Len(data[1]) = 0

(***************************************************************************)
(* The serializer, l.58-83.                                                *)
(***************************************************************************)
\* the keys taken from the last record instead of the first
Keys_LastRecord(p) ==
    IF Given(p.headers) THEN p.headers[1] ELSE ObjectKeys(p.data[1][Len(p.data[1])])

\* l.58
Keys(p) == IF Given(p.headers) THEN p.headers[1] ELSE ObjectKeys(p.data[1][1])

MapString(ks) == [i \in 1..Len(ks) |-> String(ks[i])]

\* labels shorter than the keys dropped in favour of the keys
HeaderRow_FallsBackWhenShort(p) ==
    IF p.useKeysAsHeader THEN MapString(Keys(p))
    ELSE IF Given(p.labels) /\ Len(p.labels[1]) >= Len(Keys(p)) THEN p.labels[1]
    ELSE MapString(Keys(p))

\* l.59
HeaderRow(p) ==
    IF p.useKeysAsHeader THEN MapString(Keys(p))
    ELSE IF Given(p.labels) THEN p.labels[1] ELSE MapString(Keys(p))

\* the cell positions in the order the two maps of l.61-63 visit them
CellOrder(p) ==
    LET K == Len(Keys(p)) IN
    [m \in 1..(Len(p.data[1]) * K) |-> <<((m - 1) \div K) + 1, ((m - 1) % K) + 1>>]

FormatterThrowsAt(p, pos) ==
    LET key == Keys(p)[pos[2]]
        raw == GetProp(p.data[1][pos[1]], key) IN
    /\ HasFormatter(p.formatters, key)
    /\ CallFormatter(FormatterOf(p.formatters, key), raw) = Thrown

\* Object.keys(data[0]) throws a TypeError when data[0] is undefined
KeysThrows(p) == ~Given(p.headers) /\ Len(p.data[1]) = 0

\* the first position whose formatter throws, 0 when none does
FirstThrow(p) ==
    LET order == CellOrder(p)
        bad == {m \in 1..Len(order) : FormatterThrowsAt(p, order[m])} IN
    IF bad = {} THEN 0 ELSE CHOOSE m \in bad : \A m2 \in bad : m <= m2

\* one "formatter" event per formatter call made, up to the first that throws
FormatterEvents(p) ==
    LET order == CellOrder(p)
        last == IF FirstThrow(p) = 0 THEN Len(order) ELSE FirstThrow(p)
        called == SelectSeq(SubSeq(order, 1, last),
                            LAMBDA pos : HasFormatter(p.formatters, Keys(p)[pos[2]])) IN
    [i \in 1..Len(called) |-> "formatter"]

\* l.62-67, before the join
Cells(p) ==
    [i \in 1..Len(p.data[1]) |->
        [j \in 1..Len(Keys(p)) |->
            escapeCSVValue(Formatted(p.formatters, Keys(p)[j], GetProp(p.data[1][i], Keys(p)[j])),
                           p.quoteValues, p.delimiter)]]

\* l.61-69
CsvRows(p) == [i \in 1..Len(p.data[1]) |-> Join(Cells(p)[i], p.delimiter)]

JoinEach(rows, delimiter) == [i \in 1..Len(rows) |-> Join(rows[i], delimiter)]

\* the header row put before the prepend rows
ContentRows_HeaderFirst(p) ==
    (IF p.includeHeader THEN <<Join(HeaderRow(p), p.delimiter)>> ELSE <<>>)
    \o JoinEach(p.prependRows, p.delimiter)
    \o CsvRows(p)
    \o JoinEach(p.appendRows, p.delimiter)

\* l.71-76
ContentRows(p) ==
    JoinEach(p.prependRows, p.delimiter)
    \o (IF p.includeHeader THEN <<Join(HeaderRow(p), p.delimiter)>> ELSE <<>>)
    \o CsvRows(p)
    \o JoinEach(p.appendRows, p.delimiter)

\* l.78-80
FinalCsv(p) == (IF p.includeBOM THEN <<BOM>> ELSE <<>>) \o Join(ContentRows(p), p.newline)

\* Date.prototype.toISOString for a four-digit year: YYYY-MM-DDTHH:mm:ss.sssZ
Pad(n, w) ==
    LET d == NatString(n) IN [i \in 1..(w - Len(d)) |-> "0"] \o d

ToISOString(t) ==
    Pad(t.year, 4) \o <<"-">> \o Pad(t.month, 2) \o <<"-">> \o Pad(t.day, 2) \o <<"T">>
    \o Pad(t.hour, 2) \o <<":">> \o Pad(t.minute, 2) \o <<":">> \o Pad(t.second, 2)
    \o <<".">> \o Pad(t.ms, 3) \o <<"Z">>

\* the timestamp appended without the .csv suffix being removed first
FinalFilename_SuffixKept(p, t) ==
    IF p.addTimestamp
    THEN p.filename \o <<"-">>
         \o ReplaceAllChar(Slice0(ToISOString(t), 19), ":", <<"-">>) \o S_dotcsv
    ELSE p.filename

\* l.81-83; t is the instant new Date() returns
FinalFilename(p, t) ==
    IF p.addTimestamp
    THEN StripCsvSuffix(p.filename) \o <<"-">>
         \o ReplaceAllChar(Slice0(ToISOString(t), 19), ":", <<"-">>) \o S_dotcsv
    ELSE p.filename

(***************************************************************************)
(* The calls explored: option objects drawn from bounded sets.             *)
(***************************************************************************)
S_name == <<"n", "a", "m", "e">>
S_age == <<"a", "g", "e">>
S_email == <<"e", "m", "a", "i", "l">>
S_zip == <<"z", "i", "p">>
S_a == <<"a">>
S_semicolon == <<";">>
S_hyphen == <<"-">>
S_test_csv == <<"t", "e", "s", "t", ".", "c", "s", "v">>
S_data == <<"d", "a", "t", "a">>
S_double == <<"a", ".", "c", "s", "v", ".", "c", "s", "v">>
S_upper == <<"r", ".", "C", "S", "V">>
S_inner == <<"a", ".", "c", "s", "v", "x">>
S_only == <<".", "c", "s", "v">>

RecJohn == <<[k |-> S_name, v |-> Str(<<"J", ",", "a">>)], [k |-> S_age, v |-> Num(30)]>>
RecJane == <<[k |-> S_age, v |-> Num(25)], [k |-> S_name, v |-> Null],
             [k |-> S_email, v |-> Str(<<"j", "@">>)]>>
RecordPool == {RecJohn, RecJane}

DataArrays == UNION {[1..n -> RecordPool] : n \in 1..MaxRecords}

CellChars == {"a", ",", DQ, NL}
CellStrings == UNION {[1..n -> CellChars] : n \in 0..MaxLen}
CellValues ==
    {Str(s) : s \in CellStrings} \cup {Num(n) : n \in {0, -1, 30}}
    \cup {Bool(TRUE), Bool(FALSE), Null, Undefined}

Delimiters == {<<>>, <<S_semicolon>>, <<S_hyphen>>, <<<<"a", ",">>>>, <<<<>>>>}
OptBool == {<<>>, <<TRUE>>, <<FALSE>>}
Callbacks == {<<>>, <<"returns">>, <<"throws">>}
FormatterIds == {"yearsOld", "toUpperCase", "yesNo", "returnsNull", "returnsUndefined"}

Instants ==
    {[year |-> 2023, month |-> 12, day |-> 25, hour |-> 10, minute |-> 30, second |-> 45, ms |-> 123],
     [year |-> 2026, month |-> 1, day |-> 2, hour |-> 3, minute |-> 4, second |-> 5, ms |-> 6]}
NoInstant == [year |-> 0, month |-> 0, day |-> 0, hour |-> 0, minute |-> 0, second |-> 0, ms |-> 0]

\* the options object with data alone
Base ==
    [data |-> <<>>, filename |-> <<>>, headers |-> <<>>, labels |-> <<>>,
     includeBOM |-> <<>>, delimiter |-> <<>>, formatters |-> <<>>, quoteValues |-> <<>>,
     addTimestamp |-> <<>>, newline |-> <<>>, onExportStart |-> <<>>,
     onExportComplete |-> <<>>, prependRows |-> <<>>, appendRows |-> <<>>,
     encoding |-> <<>>, useKeysAsHeader |-> <<>>, includeHeader |-> <<>>]

HeaderLists == {<<>>, <<<<>>>>, <<<<Str(S_age), Str(S_name)>>>>, <<<<Str(S_name), Str(S_zip), Num(1)>>>>}
LabelLists == {<<>>, <<<<>>>>, <<<<<<"N">>>>>>, <<<<<<"N">>, <<"A">>>>>>, <<<<<<"N">>, <<"A">>, <<"E">>, <<"Z">>>>>>}
ExtraRows == {<<>>, <<<<<<<<"T">>>>, <<>>>>>>, <<<<<<<<"G", ":">>, <<"1", ",", "2">>>>>>>>}

\* data absent or empty, every other option varied
GuardOptions ==
    {[Base EXCEPT !.data = d, !.onExportStart = s, !.onExportComplete = c, !.formatters = f,
                  !.headers = h, !.addTimestamp = ts, !.prependRows = pr] :
        d \in {<<>>, <<<<>>>>}, s \in Callbacks, c \in Callbacks,
        f \in {<<>>, <<<<[k |-> S_age, f |-> "yearsOld"]>>>>},
        h \in {<<>>, <<<<Str(S_age)>>>>}, ts \in {<<>>, <<TRUE>>}, pr \in ExtraRows}

\* the callbacks and formatters varied
CallbackOptions ==
    {[Base EXCEPT !.data = <<d>>, !.onExportStart = s, !.onExportComplete = c, !.formatters = f] :
        d \in DataArrays, s \in Callbacks, c \in Callbacks,
        f \in {<<>>, <<<<[k |-> S_age, f |-> "yearsOld"]>>>>,
               <<<<[k |-> S_name, f |-> "toUpperCase"], [k |-> S_age, f |-> "yesNo"]>>>>}}

\* the header options varied
HeaderOptions ==
    {[Base EXCEPT !.data = <<d>>, !.headers = h, !.labels = l, !.useKeysAsHeader = u,
                  !.includeHeader = i] :
        d \in DataArrays, h \in HeaderLists, l \in LabelLists, u \in OptBool, i \in OptBool}

\* the row layout varied
RowOptions ==
    {[Base EXCEPT !.data = <<d>>, !.prependRows = pr, !.appendRows = ap, !.includeHeader = i,
                  !.newline = nl, !.includeBOM = b, !.delimiter = dl] :
        d \in DataArrays, pr \in ExtraRows, ap \in ExtraRows, i \in OptBool,
        nl \in {<<>>, <<S_crlf>>}, b \in {<<>>, <<TRUE>>}, dl \in {<<>>, <<S_semicolon>>}}

\* the filename options varied
FilenameOptions ==
    {[Base EXCEPT !.data = <<<<RecJohn>>>>, !.filename = fn, !.addTimestamp = ts, !.encoding = e] :
        fn \in {<<>>, <<S_test_csv>>, <<S_data>>, <<S_double>>, <<S_upper>>, <<S_inner>>, <<S_only>>},
        ts \in OptBool, e \in {<<>>, <<<<"l", "1">>>>}}

\* one cell varied: its value, the delimiter and quoteValues
CellOptions ==
    {[Base EXCEPT !.data = <<<<<<[k |-> S_a, v |-> v]>>>>>>, !.delimiter = dl, !.quoteValues = q] :
        v \in CellValues, dl \in Delimiters, q \in OptBool}

\* one cell and its formatter varied
FormatterOptions ==
    {[Base EXCEPT !.data = <<<<<<[k |-> S_a, v |-> v]>>>>>>, !.quoteValues = q,
                  !.formatters = <<<<[k |-> S_a, f |-> f]>>>>] :
        v \in CellValues, q \in {<<>>, <<FALSE>>}, f \in FormatterIds}

Options ==
    GuardOptions \cup CallbackOptions \cup HeaderOptions \cup RowOptions
    \cup FilenameOptions \cup CellOptions \cup FormatterOptions

(***************************************************************************)
(* exportToCSV as a state machine.                                         *)
(***************************************************************************)
Init ==
    /\ pc = "idle"
    /\ opts = Base
    /\ log = <<>>
    /\ headerRow = <<>>
    /\ cells = <<>>
    /\ contentRows = <<>>
    /\ finalCsv = <<>>
    /\ finalFilename = <<>>
    /\ now = <<>>
    /\ blob = <<>>
    /\ urls = {}
    /\ link = <<>>
    /\ body = {}

\* l.35-56: the call, the guard and onExportStart?.()
exportToCSV ==
    /\ pc = "idle"
    /\ \E o \in Options :
        /\ opts' = o
        /\ IF GuardReturns(o.data)
           THEN /\ pc' = "returned"
                /\ log' = log
           ELSE /\ log' = IF Given(o.onExportStart) THEN Append(log, "onExportStart") ELSE log
                /\ pc' = IF o.onExportStart = <<"throws">> THEN "thrown" ELSE "serialize"
    /\ UNCHANGED <<headerRow, cells, contentRows, finalCsv, finalFilename, now, blob, urls, link, body>>

\* l.58-83: keys, headerRow, csvRows, contentRows, content, finalCsv, finalFilename
Serialize ==
    /\ pc = "serialize"
    /\ LET p == Destructure(opts) IN
       IF KeysThrows(p)
       THEN /\ pc' = "thrown"
            /\ UNCHANGED <<log, headerRow, cells, contentRows, finalCsv, finalFilename, now>>
       ELSE
       /\ log' = log \o FormatterEvents(p)
       /\ IF FirstThrow(p) # 0
          THEN /\ pc' = "thrown"
               /\ UNCHANGED <<headerRow, cells, contentRows, finalCsv, finalFilename, now>>
          ELSE /\ pc' = "Blob"
               /\ headerRow' = HeaderRow(p)
               /\ cells' = Cells(p)
               /\ contentRows' = ContentRows(p)
               /\ finalCsv' = FinalCsv(p)
               /\ \E t \in (IF p.addTimestamp THEN Instants ELSE {NoInstant}) :
                    /\ now' = IF p.addTimestamp THEN <<t>> ELSE <<>>
                    /\ finalFilename' = FinalFilename(p, t)
    /\ UNCHANGED <<opts, blob, urls, link, body>>

\* l.85
NewBlob ==
    /\ pc = "Blob"
    /\ log' = Append(log, "Blob")
    /\ blob' = <<[content |-> finalCsv, type |-> S_mime \o Destructure(opts).encoding]>>
    /\ pc' = "createObjectURL"
    /\ UNCHANGED <<opts, headerRow, cells, contentRows, finalCsv, finalFilename, now, urls, link, body>>

\* l.86
CreateObjectURL ==
    /\ pc = "createObjectURL"
    /\ log' = Append(log, "createObjectURL")
    /\ \/ /\ urls' = urls \cup {"url"}
          /\ pc' = "createElement"
       \/ /\ pc' = "thrown"
          /\ UNCHANGED urls
    /\ UNCHANGED <<opts, headerRow, cells, contentRows, finalCsv, finalFilename, now, blob, link, body>>

\* l.88-89
CreateElement ==
    /\ pc = "createElement"
    /\ log' = Append(log, "createElement")
    /\ \/ /\ link' = <<[href |-> <<"url">>, download |-> <<>>]>>
          /\ pc' = "setAttribute"
       \/ /\ pc' = "thrown"
          /\ UNCHANGED link
    /\ UNCHANGED <<opts, headerRow, cells, contentRows, finalCsv, finalFilename, now, blob, urls, body>>

\* l.90
SetAttribute ==
    /\ pc = "setAttribute"
    /\ log' = Append(log, "setAttribute")
    /\ \/ /\ link' = <<[link[1] EXCEPT !.download = <<finalFilename>>]>>
          /\ pc' = "appendChild"
       \/ /\ pc' = "thrown"
          /\ UNCHANGED link
    /\ UNCHANGED <<opts, headerRow, cells, contentRows, finalCsv, finalFilename, now, blob, urls, body>>

\* l.91
AppendChild ==
    /\ pc = "appendChild"
    /\ log' = Append(log, "appendChild")
    /\ \/ /\ body' = body \cup {"link"}
          /\ pc' = "click"
       \/ /\ pc' = "thrown"
          /\ UNCHANGED body
    /\ UNCHANGED <<opts, headerRow, cells, contentRows, finalCsv, finalFilename, now, blob, urls, link>>

\* l.92
Click ==
    /\ pc = "click"
    /\ log' = Append(log, "click")
    /\ \/ pc' = "removeChild"
       \/ pc' = "thrown"
    /\ UNCHANGED <<opts, headerRow, cells, contentRows, finalCsv, finalFilename, now, blob, urls, link, body>>

\* l.93
RemoveChild ==
    /\ pc = "removeChild"
    /\ log' = Append(log, "removeChild")
    /\ \/ /\ body' = body \ {"link"}
          /\ pc' = "revokeObjectURL"
       \/ /\ pc' = "thrown"
          /\ UNCHANGED body
    /\ UNCHANGED <<opts, headerRow, cells, contentRows, finalCsv, finalFilename, now, blob, urls, link>>

\* onExportComplete invoked before the object URL is revoked
RevokeObjectURL_AfterComplete ==
    /\ pc = "revokeObjectURL"
    /\ log' = (IF Given(opts.onExportComplete) THEN Append(log, "onExportComplete") ELSE log)
              \o <<"revokeObjectURL">>
    /\ urls' = urls \ {link[1].href[1]}
    /\ pc' = "returned"
    /\ UNCHANGED <<opts, headerRow, cells, contentRows, finalCsv, finalFilename, now, blob, link, body>>

\* l.94
RevokeObjectURL ==
    /\ pc = "revokeObjectURL"
    /\ log' = Append(log, "revokeObjectURL")
    /\ \/ /\ urls' = urls \ {link[1].href[1]}
          /\ pc' = "onExportComplete"
       \/ /\ pc' = "thrown"
          /\ UNCHANGED urls
    /\ UNCHANGED <<opts, headerRow, cells, contentRows, finalCsv, finalFilename, now, blob, link, body>>

\* l.96-97
OnExportComplete ==
    /\ pc = "onExportComplete"
    /\ log' = IF Given(opts.onExportComplete) THEN Append(log, "onExportComplete") ELSE log
    /\ pc' = IF opts.onExportComplete = <<"throws">> THEN "thrown" ELSE "returned"
    /\ UNCHANGED <<opts, headerRow, cells, contentRows, finalCsv, finalFilename, now, blob, urls, link, body>>

Next ==
    \/ exportToCSV
    \/ Serialize
    \/ NewBlob
    \/ CreateObjectURL
    \/ CreateElement
    \/ SetAttribute
    \/ AppendChild
    \/ Click
    \/ RemoveChild
    \/ RevokeObjectURL
    \/ OnExportComplete

Spec == Init /\ [][Next]_vars

(***************************************************************************)
(* Properties.                                                             *)
(***************************************************************************)
P == Destructure(opts)

\* the positions of the call at which the serializer has run to its end
Serialized ==
    pc \in {"Blob", "createObjectURL", "createElement", "setAttribute", "appendChild",
            "click", "removeChild", "revokeObjectURL", "onExportComplete"}
    \/ (pc \in {"returned", "thrown"} /\ blob # <<>>)

Count(seq, e) == Cardinality({i \in 1..Len(seq) : seq[i] = e})
Pos(seq, e) == CHOOSE i \in 1..Len(seq) : seq[i] = e
Occurs(seq, e) == \E i \in 1..Len(seq) : seq[i] = e

\* d occurs in s at some position
Contains(s, d) ==
    \E i \in 0..(Len(s) - Len(d)) : \A j \in 1..Len(d) : s[i + j] = d[j]

RECURSIVE Undouble(_)
\* a quoted cell's interior with each pair of double quotes made one; a double
\* quote that is not part of a pair is kept as the mark "lone"
Undouble(s) ==
    IF s = <<>> THEN <<>>
    ELSE IF Head(s) # DQ THEN <<Head(s)>> \o Undouble(Tail(s))
    ELSE IF Len(s) >= 2 /\ s[2] = DQ THEN <<DQ>> \o Undouble(Tail(Tail(s)))
    ELSE <<"lone">>

\* cell is s inside one pair of double quotes, every double quote of s doubled
IsQuoted(cell, s) ==
    /\ Len(cell) = Len(s) + 2 + Count(s, DQ)
    /\ cell[1] = DQ
    /\ cell[Len(cell)] = DQ
    /\ Undouble(SubSeq(cell, 2, Len(cell) - 1)) = s

\* the field selectors the claims expect: the headers given, else the names of
\* the first record's properties
ExpectedSelectors ==
    IF opts.headers # <<>> THEN opts.headers[1]
    ELSE [j \in 1..Len(opts.data[1][1]) |-> Str(opts.data[1][1][j].k)]

Stringified(ks) == [j \in 1..Len(ks) |-> String(ks[j])]

RawAt(i, j) == GetProp(opts.data[1][i], ExpectedSelectors[j])
FormattedAt(i, j) == Formatted(P.formatters, ExpectedSelectors[j], RawAt(i, j))

\* C1: with data absent or empty the call returns having invoked no callback
\* and no formatter, built no Blob, created no object URL and no link, and
\* appended, clicked and revoked nothing.
C1_EmptyDataIsNoOp ==
    (pc # "idle" /\ (opts.data = <<>> \/ opts.data = <<<<>>>>)) =>
        /\ pc = "returned"
        /\ log = <<>>
        /\ headerRow = <<>> /\ cells = <<>> /\ contentRows = <<>> /\ finalCsv = <<>>
        /\ blob = <<>> /\ urls = {} /\ link = <<>> /\ body = {}

C1_Witness ==
    /\ pc = "returned"
    /\ opts.data = <<<<>>>>
    /\ opts.onExportStart = <<"returns">>
    /\ opts.onExportComplete = <<"returns">>
    /\ opts.formatters # <<>>
    /\ log = <<>>

\* C2: a call on non-empty data that returns normally has invoked
\* onExportStart (if given) first and once, every formatter after it and before
\* the Blob, then Blob, createObjectURL, click and revokeObjectURL once each in
\* this order, and onExportComplete (if given) last and once; and in no state
\* has onExportComplete been invoked before the click and the revocation.
C2_EventOrder ==
    /\ (pc = "returned" /\ ~(opts.data = <<>> \/ opts.data = <<<<>>>>)) =>
        /\ Count(log, "onExportStart") = (IF opts.onExportStart # <<>> THEN 1 ELSE 0)
        /\ opts.onExportStart # <<>> => log[1] = "onExportStart"
        /\ \A e \in {"Blob", "createObjectURL", "createElement", "setAttribute",
                     "appendChild", "click", "removeChild", "revokeObjectURL"} :
              Count(log, e) = 1
        /\ Pos(log, "Blob") < Pos(log, "createObjectURL")
        /\ Pos(log, "createObjectURL") < Pos(log, "click")
        /\ Pos(log, "click") < Pos(log, "revokeObjectURL")
        /\ \A i \in 1..Len(log) : log[i] = "formatter" =>
              /\ i < Pos(log, "Blob")
              /\ opts.onExportStart # <<>> => i > 1
        /\ Count(log, "onExportComplete") = (IF opts.onExportComplete # <<>> THEN 1 ELSE 0)
        /\ opts.onExportComplete # <<>> =>
              /\ log[Len(log)] = "onExportComplete"
              /\ Pos(log, "revokeObjectURL") = Len(log) - 1
    /\ Occurs(log, "onExportComplete") =>
        /\ Occurs(log, "click")
        /\ Occurs(log, "revokeObjectURL")
        /\ urls = {}
    /\ (Occurs(log, "formatter") \/ Occurs(log, "Blob")) /\ opts.onExportStart # <<>> =>
        log[1] = "onExportStart"

C2_Witness ==
    /\ pc = "returned"
    /\ opts.onExportStart = <<"returns">>
    /\ opts.onExportComplete = <<"returns">>
    /\ Count(log, "formatter") >= 2
    /\ log[Len(log)] = "onExportComplete"

\* C3: on every exit of a call that created an object URL, normal or by an
\* exception, the URL has been revoked and the link is not in document.body.
C3_ReleasedOnEveryExit ==
    (pc \in {"returned", "thrown"} /\ Occurs(log, "createObjectURL")) =>
        /\ urls = {}
        /\ "link" \notin body

\* C4: a cell whose formatted value v is not null or undefined is String(v)
\* in double quotes with its double quotes doubled exactly when quoteValues is
\* true or String(v) contains the delimiter, a double quote or a newline, and
\* is String(v) itself otherwise.
C4_QuoteRule ==
    Serialized =>
        \A i \in 1..Len(cells) : \A j \in 1..Len(cells[i]) :
            LET v == FormattedAt(i, j)
                s == String(v)
                must == \/ P.quoteValues
                        \/ Contains(s, P.delimiter)
                        \/ Contains(s, <<DQ>>)
                        \/ Contains(s, <<NL>>) IN
            ~IsNullish(v) =>
                IF must THEN IsQuoted(cells[i][j], s) ELSE cells[i][j] = s

C4_Witness ==
    /\ pc = "returned"
    /\ opts.quoteValues = <<FALSE>>
    /\ opts.delimiter = <<S_semicolon>>
    /\ opts.data = <<<<<<[k |-> S_a, v |-> Str(<<"a", DQ>>)]>>>>>>
    /\ cells = <<<<<<DQ, "a", DQ, DQ, DQ>>>>>>

\* C5: a cell whose raw value is null or undefined, or whose registered
\* formatter returns null or undefined, is the empty cell.
C5_NullishRendersEmpty ==
    Serialized =>
        \A i \in 1..Len(cells) : \A j \in 1..Len(cells[i]) :
            LET key == ExpectedSelectors[j] IN
            (\/ IsNullish(RawAt(i, j))
             \/ /\ HasFormatter(P.formatters, key)
                /\ IsNullish(CallFormatter(FormatterOf(P.formatters, key), RawAt(i, j))))
            => cells[i][j] = <<>>

\* C6: the rows are the prepend rows in order, each joined by the delimiter
\* unescaped, then one header row exactly when includeHeader is true, then one
\* row per record in input order, then the append rows in order; the document
\* is these rows joined by the newline option.
C6_RowLayout ==
    Serialized =>
        LET np == Len(P.prependRows)
            h == IF opts.includeHeader = <<FALSE>> THEN 0 ELSE 1
            nd == Len(opts.data[1])
            na == Len(P.appendRows) IN
        /\ Len(contentRows) = np + h + nd + na
        /\ \A i \in 1..np : contentRows[i] = Join(P.prependRows[i], P.delimiter)
        /\ h = 1 => contentRows[np + 1] = Join(headerRow, P.delimiter)
        /\ Len(cells) = nd
        /\ \A i \in 1..nd :
              /\ contentRows[np + h + i] = Join(cells[i], P.delimiter)
              /\ \A j \in 1..Len(cells[i]) :
                    cells[i][j] = escapeCSVValue(FormattedAt(i, j), P.quoteValues, P.delimiter)
        /\ \A i \in 1..na : contentRows[np + h + nd + i] = Join(P.appendRows[i], P.delimiter)
        /\ finalCsv = (IF opts.includeBOM = <<TRUE>> THEN <<BOM>> ELSE <<>>)
                      \o Join(contentRows, P.newline)

C6_Witness ==
    /\ pc = "returned"
    /\ opts.data = <<<<RecJane, RecJohn>>>>
    /\ opts.includeHeader = <<FALSE>>
    /\ opts.newline = <<S_crlf>>
    /\ Len(P.prependRows) = 2
    /\ Len(P.appendRows) = 1
    /\ Len(contentRows) = 5
    /\ contentRows[3] = <<DQ, "2", "5", DQ, ",", ",", DQ, "j", "@", DQ>>

\* C7: every data row has one cell per field selector, the selectors being the
\* headers given, else the first record's keys in key order; the header cells
\* are the stringified selectors when useKeysAsHeader is true, else the labels
\* if given, else the stringified selectors.
C7_HeaderResolution ==
    Serialized =>
        /\ \A i \in 1..Len(cells) :
              /\ Len(cells[i]) = Len(ExpectedSelectors)
              /\ \A j \in 1..Len(cells[i]) :
                    cells[i][j] = escapeCSVValue(FormattedAt(i, j), P.quoteValues, P.delimiter)
        /\ headerRow = IF opts.useKeysAsHeader = <<TRUE>> THEN Stringified(ExpectedSelectors)
                       ELSE IF opts.labels # <<>> THEN opts.labels[1]
                       ELSE Stringified(ExpectedSelectors)
        /\ opts.includeHeader # <<FALSE>> =>
              contentRows[Len(P.prependRows) + 1] = Join(headerRow, P.delimiter)

C7_Witness ==
    /\ pc = "returned"
    /\ opts.data = <<<<RecJohn, RecJane>>>>
    /\ opts.headers = <<>>
    /\ opts.useKeysAsHeader = <<TRUE>>
    /\ opts.labels = <<<<<<"N">>, <<"A">>>>>>
    /\ headerRow = <<S_name, S_age>>
    /\ contentRows[1] = S_name \o <<",">> \o S_age
    /\ Len(cells[2]) = 2

\* C8 as claimed: with useKeysAsHeader false and includeHeader true, labels
\* absent or fewer than the field selectors give the stringified selectors as
\* the header row, which so has one cell per selector, as every data row has.
C8_ShortLabelsFallBack ==
    (Serialized /\ opts.useKeysAsHeader # <<TRUE>> /\ opts.includeHeader # <<FALSE>>
     /\ (opts.labels = <<>> \/ Len(opts.labels[1]) < Len(ExpectedSelectors))) =>
        /\ headerRow = Stringified(ExpectedSelectors)
        /\ \A i \in 1..Len(cells) : Len(headerRow) = Len(cells[i])

\* C8 amended: with useKeysAsHeader false and includeHeader true, absent labels
\* give the stringified selectors as the header row, one cell per selector as
\* in every data row; labels that are given are the header row as they are,
\* however many they are.
C8_LabelsUsedAsGiven ==
    (Serialized /\ opts.useKeysAsHeader # <<TRUE>> /\ opts.includeHeader # <<FALSE>>) =>
        /\ opts.labels = <<>> =>
              /\ headerRow = Stringified(ExpectedSelectors)
              /\ \A i \in 1..Len(cells) : Len(headerRow) = Len(cells[i])
        /\ opts.labels # <<>> => headerRow = opts.labels[1]
        /\ contentRows[Len(P.prependRows) + 1] = Join(headerRow, P.delimiter)

C8_Witness ==
    /\ pc = "returned"
    /\ opts.useKeysAsHeader = <<FALSE>>
    /\ opts.includeHeader = <<TRUE>>
    /\ opts.headers = <<>>
    /\ opts.labels = <<<<<<"N">>>>>>
    /\ opts.data = <<<<RecJohn>>>>
    /\ headerRow = <<<<"N">>>>
    /\ contentRows[1] = <<"N">>
    /\ Len(cells[1]) = 2

TwoDigits(n) == <<Digits[(n \div 10) + 1], Digits[(n % 10) + 1]>>

\* an instant as YYYY-MM-DDTHH-mm-ss
Stamp(t) ==
    TwoDigits(t.year \div 100) \o TwoDigits(t.year % 100) \o <<"-">> \o TwoDigits(t.month)
    \o <<"-">> \o TwoDigits(t.day) \o <<"T">> \o TwoDigits(t.hour) \o <<"-">>
    \o TwoDigits(t.minute) \o <<"-">> \o TwoDigits(t.second)

EndsWith(s, suffix) ==
    Len(s) >= Len(suffix) /\ \A j \in 1..Len(suffix) : s[Len(s) - Len(suffix) + j] = suffix[j]

\* C9: the download name is the filename option as given (export.csv when left
\* out) when addTimestamp is false; when it is true it is the filename less one
\* trailing .csv, a hyphen, the instant as YYYY-MM-DDTHH-mm-ss, and .csv.
C9_Filename ==
    Serialized =>
        LET fn == IF opts.filename = <<>> THEN S_export_csv ELSE opts.filename[1] IN
        /\ opts.addTimestamp # <<TRUE>> => finalFilename = fn /\ now = <<>>
        /\ opts.addTimestamp = <<TRUE>> =>
              /\ now # <<>>
              /\ \E n \in 0..Len(fn) :
                    LET stem == SubSeq(fn, 1, n) IN
                    /\ IF EndsWith(fn, S_dotcsv) THEN stem \o S_dotcsv = fn ELSE stem = fn
                    /\ finalFilename = stem \o <<"-">> \o Stamp(now[1]) \o S_dotcsv
              /\ EndsWith(finalFilename, S_dotcsv)
              /\ ~Occurs(SubSeq(finalFilename, Len(finalFilename) - 22, Len(finalFilename)), ":")
        /\ (link # <<>> /\ link[1].download # <<>>) => link[1].download[1] = finalFilename

C9_Witness ==
    /\ pc = "returned"
    /\ opts.filename = <<S_test_csv>>
    /\ opts.addTimestamp = <<TRUE>>
    /\ now = <<[year |-> 2023, month |-> 12, day |-> 25, hour |-> 10, minute |-> 30,
                second |-> 45, ms |-> 123]>>
    /\ link[1].download[1] = <<"t", "e", "s", "t", "-", "2", "0", "2", "3", "-", "1", "2", "-",
                               "2", "5", "T", "1", "0", "-", "3", "0", "-", "4", "5",
                               ".", "c", "s", "v">>

\* C10: with useKeysAsHeader false and includeHeader left out, the document
\* has no header row: its rows are the prepend rows, the data rows and the
\* append rows alone.
C10_NoHeaderWithoutKeysAsHeader ==
    (Serialized /\ opts.useKeysAsHeader = <<FALSE>> /\ opts.includeHeader = <<>>) =>
        /\ Len(contentRows) = Len(P.prependRows) + Len(opts.data[1]) + Len(P.appendRows)
        /\ \A i \in 1..Len(opts.data[1]) :
              contentRows[Len(P.prependRows) + i] = Join(cells[i], P.delimiter)

====
